---------------------------- MODULE Spec2Model ----------------------------
(***************************************************************************)
(* A model of go-srcinfo: the line parser of parser.go (parse, splitLine,  *)
(* setField, currentPackage, getArchFromKey, makeArchString) and the merge *)
(* of srcinfo.go (SplitPackage, mergeSplitPackage).                        *)
(*                                                                         *)
(* Strings.  A Go string is modelled as a sequence of atoms.  The atoms    *)
(* " ", "\t", "\r", "=", "_" and "#" are the characters the code looks     *)
(* at; every other atom is a maximal run of characters the code never      *)
(* inspects one by one ("pkgver", "1.0", "x86").  The empty string is <<>>.*)
(* The text given to parse is represented by the lines that               *)
(* strings.Split(data, "\n") produces; the variable data holds the lines   *)
(* the loop of parse has read so far.                                      *)
(***************************************************************************)
EXTENDS Integers, Sequences, FiniteSets, TLC

VARIABLES
    alphabet,   \* the set of lines the text is composed of
    data,       \* the lines of the text read so far, in order
    n,          \* loop index of parse: the index of the line being read
    psr,        \* the parser: [headerType, srcinfo]
    pc,         \* "parse" | "returned" | "failed"
    ret,        \* what parse returned: [si, err], both nil until it returns
    split,      \* the last SplitPackage call: [name, pkg, err], or nil
    made        \* a call of makeArchString: [key, value, as], or nil

vars == <<alphabet, data, n, psr, pc, ret, split, made>>

-----------------------------------------------------------------------------
(* Bounds *)

MaxLines == 4

ScenarioLines == 6

MaxKeyLen == 5

-----------------------------------------------------------------------------
(* Go values *)

nil == [nil |-> TRUE]

headerNone == -2

headerPkgbase == -1

Range(s) == {s[i] : i \in 1..Len(s)}

\* the zero value of type Package
EmptyPackage ==
    [Pkgdesc |-> <<>>, Arch |-> <<>>, URL |-> <<>>, License |-> <<>>,
     Groups |-> <<>>, Depends |-> <<>>, OptDepends |-> <<>>,
     Provides |-> <<>>, Conflicts |-> <<>>, Replaces |-> <<>>,
     Backup |-> <<>>, Options |-> <<>>, Install |-> <<>>,
     Changelog |-> <<>>]

\* the zero value of type PackageBase
EmptyPackageBase ==
    [Pkgbase |-> <<>>, Pkgnames |-> <<>>, Pkgver |-> <<>>, Pkgrel |-> <<>>,
     Epoch |-> <<>>, Source |-> <<>>, ValidPGPKeys |-> <<>>,
     NoExtract |-> <<>>, MD5Sums |-> <<>>, SHA1Sums |-> <<>>,
     SHA224Sums |-> <<>>, SHA256Sums |-> <<>>, SHA384Sums |-> <<>>,
     SHA512Sums |-> <<>>, MakeDepends |-> <<>>, CheckDepends |-> <<>>]

\* the zero value of type Srcinfo (&Srcinfo{})
EmptySrcinfo ==
    [PackageBase |-> EmptyPackageBase, Package |-> EmptyPackage,
     Packages |-> <<>>]

-----------------------------------------------------------------------------
(* package strings *)

WhiteSpace == {" ", "\t", "\r"}

RECURSIVE TrimLeft(_)
TrimLeft(s) ==
    IF s # <<>> /\ Head(s) \in WhiteSpace THEN TrimLeft(Tail(s)) ELSE s

RECURSIVE TrimRight(_)
TrimRight(s) ==
    IF s # <<>> /\ s[Len(s)] \in WhiteSpace
    THEN TrimRight(SubSeq(s, 1, Len(s) - 1))
    ELSE s

TrimSpace(s) == TrimRight(TrimLeft(s))

\* a test for equality in the place of the test for a prefix
HasPrefix_equal(s, prefix) == s = prefix

HasPrefix(s, prefix) ==
    Len(s) >= Len(prefix) /\ SubSeq(s, 1, Len(prefix)) = prefix

\* the index of the first occurrence of the atom sep in s, 0 if none
Index(s, sep) ==
    IF \E i \in 1..Len(s) : s[i] = sep
    THEN CHOOSE i \in 1..Len(s) :
             s[i] = sep /\ \A j \in 1..(i - 1) : s[j] # sep
    ELSE 0

\* strings.SplitN(s, sep, 2)
SplitN2(s, sep) ==
    LET i == Index(s, sep)
    IN  IF i = 0 THEN <<s>>
        ELSE <<SubSeq(s, 1, i - 1), SubSeq(s, i + 1, Len(s))>>

-----------------------------------------------------------------------------
(* errors *)

\* fmt.Errorf(format, key)
Errorf(format, key) == [format |-> format, key |-> key]

\* Error(n, line, err.Error())
Error(num, line, err) == [Line |-> num, Text |-> line, Err |-> err]

-----------------------------------------------------------------------------
(* parser.go *)

\* getArchFromKey that splits the key at its last "_"
getArchFromKey_last(key) ==
    IF \E i \in 1..Len(key) : key[i] = "_"
    THEN LET i == CHOOSE j \in 1..Len(key) :
                      key[j] = "_" /\ \A k \in (j + 1)..Len(key) : key[k] # "_"
         IN  SubSeq(key, i + 1, Len(key))
    ELSE <<>>

getArchFromKey(key) ==
    LET parts == SplitN2(key, "_")
    IN  IF Len(parts) = 2 THEN parts[2] ELSE <<>>

makeArchString(key, value) ==
    [Arch |-> getArchFromKey(key), Value |-> value]

\* the cases of the "pkgbase only" switch: key -> field of PackageBase
BaseScalarKeys ==
    [pkgver |-> "Pkgver", pkgrel |-> "Pkgrel", epoch |-> "Epoch"]

BaseListKeys ==
    [validpgpkeys |-> "ValidPGPKeys", noextract |-> "NoExtract"]

BaseArchKeys ==
    [source |-> "Source", md5sums |-> "MD5Sums", sha1sums |-> "SHA1Sums",
     sha224sums |-> "SHA224Sums", sha256sums |-> "SHA256Sums",
     sha384sums |-> "SHA384Sums", sha512sums |-> "SHA512Sums",
     makedepends |-> "MakeDepends", checkdepends |-> "CheckDepends"]

\* the cases of the "pkgbase or pkgname" switch: key -> field of Package
PkgScalarKeys ==
    [pkgdesc |-> "Pkgdesc", url |-> "URL", install |-> "Install",
     changelog |-> "Changelog"]

PkgListKeys ==
    [license |-> "License", groups |-> "Groups", arch |-> "Arch",
     backup |-> "Backup", options |-> "Options"]

PkgArchKeys ==
    [depends |-> "Depends", optdepends |-> "OptDepends",
     conflicts |-> "Conflicts", provides |-> "Provides",
     replaces |-> "Replaces"]

\* the string key is the case label of one of the cases of table
IsCase(key, table) == Len(key) = 1 /\ key[1] \in DOMAIN table

\* currentPackage that takes the first package for the current one
currentPackage_first(p) ==
    IF p.headerType = headerNone
    THEN [pkg |-> nil, err |-> Errorf("Not in pkgbase or pkgname", <<>>)]
    ELSE IF p.headerType = headerPkgbase
    THEN [pkg |-> <<"Package">>, err |-> nil]
    ELSE [pkg |-> <<"Packages", 0>>, err |-> nil]

\* the "pointer" currentPackage returns: <<"Package">> for
\* &psr.srcinfo.Package, <<"Packages", i>> for &psr.srcinfo.Packages[i]
\* (i is the 0-based Go index)
currentPackage(p) ==
    IF p.headerType = headerNone
    THEN [pkg |-> nil, err |-> Errorf("Not in pkgbase or pkgname", <<>>)]
    ELSE IF p.headerType = headerPkgbase
    THEN [pkg |-> <<"Package">>, err |-> nil]
    ELSE [pkg |-> <<"Packages", p.headerType>>, err |-> nil]

\* *pkg
Deref(si, pkg) ==
    IF pkg = <<"Package">> THEN si.Package ELSE si.Packages[pkg[2] + 1]

\* an assignment that goes to the Package of the base whatever pkg is
Assign_base(si, pkg, field, v) == [si EXCEPT !.Package[field] = v]

\* pkg.field = v
Assign(si, pkg, field, v) ==
    IF pkg = <<"Package">>
    THEN [si EXCEPT !.Package[field] = v]
    ELSE [si EXCEPT !.Packages[pkg[2] + 1][field] = v]

\* case "pkgbase"
setPkgbase(p, key, value) ==
    IF p.headerType # headerNone
    THEN [psr |-> p,
          err |-> Errorf("key %s can not occur after a pkgbase or pkgname", key)]
    ELSE [psr |-> [headerType |-> headerPkgbase,
                   srcinfo |-> [p.srcinfo EXCEPT !.PackageBase.Pkgbase = value]],
          err |-> nil]

\* setPkgname without the test for headerNone
setPkgname_anywhere(p, key, value) ==
    LET Pkgnames == Append(p.srcinfo.PackageBase.Pkgnames, value)
    IN  [psr |-> [headerType |-> Len(Pkgnames) - 1,
                  srcinfo |-> [p.srcinfo EXCEPT
                      !.PackageBase.Pkgnames = Pkgnames,
                      !.Packages = Append(@, EmptyPackage)]],
         err |-> nil]

\* setPkgname that always makes the first package the current one
setPkgname_zero(p, key, value) ==
    LET Pkgnames == Append(p.srcinfo.PackageBase.Pkgnames, value)
    IN  IF p.headerType = headerNone
        THEN [psr |-> p,
              err |-> Errorf("key %s can not occur before pkgbase", key)]
        ELSE [psr |-> [headerType |-> 0,
                       srcinfo |-> [p.srcinfo EXCEPT
                           !.PackageBase.Pkgnames = Pkgnames,
                           !.Packages = Append(@, EmptyPackage)]],
              err |-> nil]

\* case "pkgname"; seenPkgnames is a local of setField, empty at each call
setPkgname(p, key, value) ==
    LET seenPkgnames == {}
        Pkgnames == Append(p.srcinfo.PackageBase.Pkgnames, value)
    IN  IF p.headerType = headerNone
        THEN [psr |-> p,
              err |-> Errorf("key %s can not occur before pkgbase", key)]
        ELSE IF value \in seenPkgnames
        THEN [psr |-> p,
              err |-> Errorf("pkgname %s can not occur more than once", key)]
        ELSE [psr |-> [headerType |-> Len(Pkgnames) - 1,
                       srcinfo |-> [p.srcinfo EXCEPT
                           !.PackageBase.Pkgnames = Pkgnames,
                           !.Packages = Append(@, EmptyPackage)]],
              err |-> nil]

\* setBaseOnly that tests the header for headerNone
setBaseOnly_none(p, key, value) ==
    LET pkgbase == p.srcinfo.PackageBase
        written ==
            IF IsCase(key, BaseScalarKeys)
            THEN [pkgbase EXCEPT ![BaseScalarKeys[key[1]]] = value]
            ELSE IF IsCase(key, BaseListKeys)
            THEN [pkgbase EXCEPT ![BaseListKeys[key[1]]] = Append(@, value)]
            ELSE [pkgbase EXCEPT ![BaseArchKeys[key[1]]] =
                                     Append(@, makeArchString(key, value))]
        q == [p EXCEPT !.srcinfo.PackageBase = written]
    IN  IF p.headerType = headerNone
        THEN [psr |-> q,
              err |-> Errorf("key %s can not occur after pkgname", key)]
        ELSE [psr |-> q, err |-> nil]

\* the "pkgbase only" switch and the test of found that follows it; the
\* field is written before the header is looked at
setBaseOnly(p, key, value) ==
    LET pkgbase == p.srcinfo.PackageBase
        written ==
            IF IsCase(key, BaseScalarKeys)
            THEN [pkgbase EXCEPT ![BaseScalarKeys[key[1]]] = value]
            ELSE IF IsCase(key, BaseListKeys)
            THEN [pkgbase EXCEPT ![BaseListKeys[key[1]]] = Append(@, value)]
            ELSE [pkgbase EXCEPT ![BaseArchKeys[key[1]]] =
                                     Append(@, makeArchString(key, value))]
        q == [p EXCEPT !.srcinfo.PackageBase = written]
    IN  IF p.headerType # headerPkgbase
        THEN [psr |-> q,
              err |-> Errorf("key %s can not occur after pkgname", key)]
        ELSE [psr |-> q, err |-> nil]

\* setPackageField whose default case ignores the key
setPackageField_ignore(p, pkg, key, value) ==
    LET cur == Deref(p.srcinfo, pkg)
    IN  IF IsCase(key, PkgScalarKeys)
        THEN [psr |-> [p EXCEPT !.srcinfo =
                          Assign(@, pkg, PkgScalarKeys[key[1]], value)],
              err |-> nil]
        ELSE IF IsCase(key, PkgListKeys)
        THEN [psr |-> [p EXCEPT !.srcinfo =
                          Assign(@, pkg, PkgListKeys[key[1]],
                                 Append(cur[PkgListKeys[key[1]]], value))],
              err |-> nil]
        ELSE IF IsCase(key, PkgArchKeys)
        THEN [psr |-> [p EXCEPT !.srcinfo =
                          Assign(@, pkg, PkgArchKeys[key[1]],
                                 Append(cur[PkgArchKeys[key[1]]],
                                        makeArchString(key, value)))],
              err |-> nil]
        ELSE [psr |-> p, err |-> nil]

\* setPackageField that assigns a list field instead of appending to it
setPackageField_replace(p, pkg, key, value) ==
    LET cur == Deref(p.srcinfo, pkg)
    IN  IF IsCase(key, PkgScalarKeys)
        THEN [psr |-> [p EXCEPT !.srcinfo =
                          Assign(@, pkg, PkgScalarKeys[key[1]], value)],
              err |-> nil]
        ELSE IF IsCase(key, PkgListKeys)
        THEN [psr |-> [p EXCEPT !.srcinfo =
                          Assign(@, pkg, PkgListKeys[key[1]], <<value>>)],
              err |-> nil]
        ELSE IF IsCase(key, PkgArchKeys)
        THEN [psr |-> [p EXCEPT !.srcinfo =
                          Assign(@, pkg, PkgArchKeys[key[1]],
                                 <<makeArchString(key, value)>>)],
              err |-> nil]
        ELSE [psr |-> p, err |-> Errorf("Unknown key: %s", key)]

\* the "pkgbase or pkgname" switch
setPackageField(p, pkg, key, value) ==
    LET cur == Deref(p.srcinfo, pkg)
    IN  IF IsCase(key, PkgScalarKeys)
        THEN [psr |-> [p EXCEPT !.srcinfo =
                          Assign(@, pkg, PkgScalarKeys[key[1]], value)],
              err |-> nil]
        ELSE IF IsCase(key, PkgListKeys)
        THEN [psr |-> [p EXCEPT !.srcinfo =
                          Assign(@, pkg, PkgListKeys[key[1]],
                                 Append(cur[PkgListKeys[key[1]]], value))],
              err |-> nil]
        ELSE IF IsCase(key, PkgArchKeys)
        THEN [psr |-> [p EXCEPT !.srcinfo =
                          Assign(@, pkg, PkgArchKeys[key[1]],
                                 Append(cur[PkgArchKeys[key[1]]],
                                        makeArchString(key, value)))],
              err |-> nil]
        ELSE [psr |-> p, err |-> Errorf("Unknown key: %s", key)]

setField(p, key, value) ==
    IF key = <<"pkgbase">> THEN setPkgbase(p, key, value)
    ELSE IF key = <<"pkgname">> THEN setPkgname(p, key, value)
    ELSE IF p.headerType = headerNone
    THEN [psr |-> p,
          err |-> Errorf("key %s can not occur before pkgbase or pkgname", key)]
    ELSE LET cp == currentPackage(p)
         IN  IF cp.err # nil THEN [psr |-> p, err |-> cp.err]
             ELSE IF \/ IsCase(key, BaseScalarKeys)
                     \/ IsCase(key, BaseListKeys)
                     \/ IsCase(key, BaseArchKeys)
             THEN setBaseOnly(p, key, value)
             ELSE setPackageField(p, cp.pkg, key, value)

\* splitLine without the test of the value
splitLine_novalue(line) ==
    LET parts == SplitN2(line, "=")
    IN  IF Len(parts) # 2
        THEN [key |-> <<>>, value |-> <<>>,
              err |-> Errorf("Line does not contain =", <<>>)]
        ELSE LET key == TrimSpace(parts[1])
                 value == TrimSpace(parts[2])
             IN  IF key = <<>>
                 THEN [key |-> <<>>, value |-> <<>>,
                       err |-> Errorf("Key is empty", <<>>)]
                 ELSE [key |-> key, value |-> value, err |-> nil]

splitLine(line) ==
    LET parts == SplitN2(line, "=")
    IN  IF Len(parts) # 2
        THEN [key |-> <<>>, value |-> <<>>,
              err |-> Errorf("Line does not contain =", <<>>)]
        ELSE LET key == TrimSpace(parts[1])
                 value == TrimSpace(parts[2])
             IN  IF key = <<>>
                 THEN [key |-> <<>>, value |-> <<>>,
                       err |-> Errorf("Key is empty", <<>>)]
                 ELSE IF value = <<>>
                 THEN [key |-> <<>>, value |-> <<>>,
                       err |-> Errorf("value is empty", <<>>)]
                 ELSE [key |-> key, value |-> value, err |-> nil]

RECURSIVE parseFrom(_, _, _)
\* the loop of parse over lines from the 0-based index i on, with the
\* parser p; the result holds the parser next to the two results of parse
parseFrom(p, lines, i) ==
    IF i >= Len(lines) THEN [psr |-> p, si |-> p.srcinfo, err |-> nil]
    ELSE LET line == TrimSpace(lines[i + 1])
             sl == splitLine(line)
             sf == setField(p, sl.key, sl.value)
         IN  IF line = <<>> \/ HasPrefix(line, <<"#">>)
             THEN parseFrom(p, lines, i + 1)
             ELSE IF sl.err # nil
             THEN [psr |-> p, si |-> nil, err |-> Error(i, line, sl.err)]
             ELSE IF sf.err # nil
             THEN [psr |-> sf.psr, si |-> nil, err |-> Error(i, line, sf.err)]
             ELSE parseFrom(sf.psr, lines, i + 1)

\* parse, as a function of the lines of the text
parse(lines) ==
    parseFrom([headerType |-> headerNone, srcinfo |-> EmptySrcinfo], lines, 0)

-----------------------------------------------------------------------------
(* srcinfo.go *)

\* mergeSplitPackage without the copy of the base
mergeSplitPackage_nocopy(base, sp) == sp

mergeSplitPackage(base, sp) ==
    LET p1 == IF sp.Pkgdesc # <<>> THEN [base EXCEPT !.Pkgdesc = sp.Pkgdesc] ELSE base
        p2 == IF Len(sp.Arch) # 0 THEN [p1 EXCEPT !.Arch = sp.Arch] ELSE p1
        p3 == IF sp.URL # <<>> THEN [p2 EXCEPT !.URL = sp.URL] ELSE p2
        p4 == IF Len(sp.License) # 0 THEN [p3 EXCEPT !.License = sp.License] ELSE p3
        p5 == IF Len(sp.Groups) # 0 THEN [p4 EXCEPT !.Groups = sp.Groups] ELSE p4
        p6 == IF Len(sp.License) # 0 THEN [p5 EXCEPT !.License = sp.License] ELSE p5
        p7 == IF Len(sp.Depends) # 0 THEN [p6 EXCEPT !.Depends = sp.Depends] ELSE p6
        p8 == IF Len(sp.OptDepends) # 0 THEN [p7 EXCEPT !.OptDepends = sp.OptDepends] ELSE p7
        p9 == IF Len(sp.Provides) # 0 THEN [p8 EXCEPT !.Provides = sp.Provides] ELSE p8
        p10 == IF Len(sp.Conflicts) # 0 THEN [p9 EXCEPT !.Conflicts = sp.Conflicts] ELSE p9
        p11 == IF Len(sp.Replaces) # 0 THEN [p10 EXCEPT !.Replaces = sp.Replaces] ELSE p10
        p12 == IF Len(sp.Backup) # 0 THEN [p11 EXCEPT !.Backup = sp.Backup] ELSE p11
        p13 == IF Len(sp.Options) # 0 THEN [p12 EXCEPT !.Options = sp.Options] ELSE p12
        p14 == IF sp.Changelog # <<>> THEN [p13 EXCEPT !.Changelog = sp.Changelog] ELSE p13
        p15 == IF sp.Install # <<>> THEN [p14 EXCEPT !.Install = sp.Install] ELSE p14
    IN  p15

\* the loop of SplitPackage, merging the first package whatever the index
RECURSIVE SplitPackageFrom_first(_, _, _)
SplitPackageFrom_first(si, pkgname, i) ==
    IF i >= Len(si.PackageBase.Pkgnames)
    THEN [pkg |-> nil,
          err |-> Errorf("Package %s is not part of this package base", pkgname)]
    ELSE IF si.PackageBase.Pkgnames[i + 1] = pkgname
    THEN [pkg |-> mergeSplitPackage(si.Package, si.Packages[1]),
          err |-> nil]
    ELSE SplitPackageFrom_first(si, pkgname, i + 1)

\* the loop of SplitPackage from the 0-based index i on
RECURSIVE SplitPackageFrom(_, _, _)
SplitPackageFrom(si, pkgname, i) ==
    IF i >= Len(si.PackageBase.Pkgnames)
    THEN [pkg |-> nil,
          err |-> Errorf("Package %s is not part of this package base", pkgname)]
    ELSE IF si.PackageBase.Pkgnames[i + 1] = pkgname
    THEN [pkg |-> mergeSplitPackage(si.Package, si.Packages[i + 1]),
          err |-> nil]
    ELSE SplitPackageFrom(si, pkgname, i + 1)

\* SplitPackage whose loop starts at the second name
SplitPackage_skip(si, pkgname) == SplitPackageFrom(si, pkgname, 1)

SplitPackage(si, pkgname) == SplitPackageFrom(si, pkgname, 0)

\* mergeSplitPackage with pkg := base in the place of the copy
mergeSplitPackageBase_alias(base, sp) == mergeSplitPackage(base, sp)

\* *base after mergeSplitPackage(base, split): pkg points to a new Package,
\* *pkg = *base copies the fields and every assignment goes to a field of
\* pkg, none to an element of a slice
mergeSplitPackageBase(base, sp) == base

RECURSIVE SplitPackageEffectFrom(_, _, _)
\* *si after the loop of SplitPackage from the 0-based index i on
SplitPackageEffectFrom(si, pkgname, i) ==
    IF i >= Len(si.PackageBase.Pkgnames) THEN si
    ELSE IF si.PackageBase.Pkgnames[i + 1] = pkgname
    THEN [si EXCEPT !.Package =
                        mergeSplitPackageBase(si.Package, si.Packages[i + 1])]
    ELSE SplitPackageEffectFrom(si, pkgname, i + 1)

\* *si after si.SplitPackage(pkgname)
SplitPackageEffect(si, pkgname) == SplitPackageEffectFrom(si, pkgname, 0)

-----------------------------------------------------------------------------
(* The texts *)

\* the line "key = value"
KeyValue(key, value) == key \o <<" ", "=", " ">> \o value

\* the same line, indented with a tab as makepkg prints the fields
Field(key, value) == <<"\t">> \o KeyValue(key, value)

Foo == <<"foo">>

FooDoc == <<"foo-doc">>

Missing == <<"missing">>

Headers ==
    {KeyValue(<<"pkgbase">>, Foo), KeyValue(<<"pkgname">>, Foo),
     KeyValue(<<"pkgname">>, FooDoc)}

ArchKeys == DOMAIN BaseArchKeys \cup DOMAIN PkgArchKeys

FieldKeys ==
    DOMAIN BaseScalarKeys \cup DOMAIN BaseListKeys \cup DOMAIN BaseArchKeys
    \cup DOMAIN PkgScalarKeys \cup DOMAIN PkgListKeys \cup DOMAIN PkgArchKeys

\* the headers, one field with two values and, for a field that may depend
\* on the architecture, the field qualified with x86_64
FieldAlphabet(k) ==
    Headers
    \cup {Field(<<k>>, <<"a">>), Field(<<k>>, <<"b">>)}
    \cup (IF k \in ArchKeys
          THEN {Field(<<k, "_", "x86", "_", "64">>, <<"a">>)}
          ELSE {})

\* the lines of the end-to-end scenario and a url
ScenarioAlphabet ==
    Headers
    \cup {Field(<<"pkgver">>, <<"1.0">>), Field(<<"pkgrel">>, <<"1">>),
          Field(<<"pkgdesc">>, <<"doc">>), Field(<<"url">>, <<"u">>)}

\* blank lines, comments, malformed lines, an unknown key, a value with "="
JunkAlphabet ==
    {KeyValue(<<"pkgbase">>, Foo), KeyValue(<<"pkgname">>, Foo),
     <<>>, <<" ", "\t">>, <<"#", " ", "comment">>, <<"\t", "#", "c">>,
     <<"pkgdesc">>, <<" ", "=", " ", "a">>, <<"pkgdesc", " ", "=", " ">>,
     Field(<<"bogus">>, <<"a">>), Field(<<"bogus", "_", "x">>, <<"a">>),
     Field(<<"provides">>, <<"gcc", "=", "6.3.0">>)}

Alphabets ==
    {FieldAlphabet(k) : k \in FieldKeys} \cup {ScenarioAlphabet, JunkAlphabet}

\* the longest text read from the alphabet
Limit == IF alphabet = ScenarioAlphabet THEN ScenarioLines ELSE MaxLines

\* the names SplitPackage is called with
Names == {Foo, FooDoc, Missing}

-----------------------------------------------------------------------------
(* The state machine *)

\* psr := &parser{headerNone, &Srcinfo{}}
Init ==
    /\ alphabet \in Alphabets
    /\ data = <<>>
    /\ n = 0
    /\ psr = [headerType |-> headerNone, srcinfo |-> EmptySrcinfo]
    /\ pc = "parse"
    /\ ret = [si |-> nil, err |-> nil]
    /\ split = nil
    /\ made = nil

\* the loop of parse without the test of the error of setField
ParseLine_unchecked(raw) ==
    /\ pc = "parse"
    /\ n < Limit
    /\ data' = Append(data, raw)
    /\ LET line == TrimSpace(raw)
           sl == splitLine(line)
           sf == setField(psr, sl.key, sl.value)
       IN  IF line = <<>> \/ HasPrefix(line, <<"#">>)
           THEN /\ n' = n + 1
                /\ UNCHANGED <<psr, pc, ret>>
           ELSE IF sl.err # nil
           THEN /\ pc' = "failed"
                /\ ret' = [si |-> nil, err |-> Error(n, line, sl.err)]
                /\ UNCHANGED <<psr, n>>
           ELSE /\ psr' = sf.psr
                /\ n' = n + 1
                /\ UNCHANGED <<pc, ret>>
    /\ UNCHANGED <<alphabet, split, made>>

\* one iteration of the loop of parse, on the next line of the text
ParseLine(raw) ==
    /\ pc = "parse"
    /\ n < Limit
    /\ data' = Append(data, raw)
    /\ LET line == TrimSpace(raw)
           sl == splitLine(line)
           sf == setField(psr, sl.key, sl.value)
       IN  IF line = <<>> \/ HasPrefix(line, <<"#">>)
           THEN /\ n' = n + 1
                /\ UNCHANGED <<psr, pc, ret>>
           ELSE IF sl.err # nil
           THEN /\ pc' = "failed"
                /\ ret' = [si |-> nil, err |-> Error(n, line, sl.err)]
                /\ UNCHANGED <<psr, n>>
           ELSE IF sf.err # nil
           THEN /\ psr' = sf.psr
                /\ pc' = "failed"
                /\ ret' = [si |-> nil, err |-> Error(n, line, sf.err)]
                /\ UNCHANGED n
           ELSE /\ psr' = sf.psr
                /\ n' = n + 1
                /\ UNCHANGED <<pc, ret>>
    /\ UNCHANGED <<alphabet, split, made>>

\* the text has no more lines: return psr.srcinfo, nil; strings.Split
\* gives at least one line, the empty one for the empty text
ParseEnd ==
    /\ pc = "parse"
    /\ data # <<>>
    /\ pc' = "returned"
    /\ ret' = [si |-> psr.srcinfo, err |-> nil]
    /\ UNCHANGED <<alphabet, data, n, psr, split, made>>

\* a call si.SplitPackage(name) on the document parse returned
CallSplitPackage(name) ==
    /\ pc = "returned"
    /\ LET r == SplitPackage(ret.si, name)
       IN  split' = [name |-> name, pkg |-> r.pkg, err |-> r.err]
    /\ ret' = [ret EXCEPT !.si = SplitPackageEffect(ret.si, name)]
    /\ UNCHANGED <<alphabet, data, n, psr, pc, made>>

Next ==
    \/ \E raw \in alphabet : ParseLine(raw)
    \/ ParseEnd
    \/ \E name \in Names : CallSplitPackage(name)

Spec == Init /\ [][Next]_vars

-----------------------------------------------------------------------------
(* makeArchString on its own *)

\* the keys makeArchString is called with: up to MaxKeyLen atoms
ArchCallKeys == UNION {[1..k -> {"a", "b", "_"}] : k \in 0..MaxKeyLen}

ArchCallValues == {<<"v">>, <<"v", "_", "w">>}

\* a key and a value for makeArchString, no parse under way
InitArch ==
    /\ alphabet = {}
    /\ data = <<>>
    /\ n = 0
    /\ psr = [headerType |-> headerNone, srcinfo |-> EmptySrcinfo]
    /\ pc = "arch"
    /\ ret = [si |-> nil, err |-> nil]
    /\ split = nil
    /\ \E key \in ArchCallKeys, value \in ArchCallValues :
           made = [key |-> key, value |-> value, as |-> nil]

\* the call makeArchString(key, value)
CallMakeArchString ==
    /\ pc = "arch"
    /\ made.as = nil
    /\ made' = [made EXCEPT !.as = makeArchString(made.key, made.value)]
    /\ UNCHANGED <<alphabet, data, n, psr, pc, ret, split>>

NextArch == CallMakeArchString

SpecArch == InitArch /\ [][NextArch]_vars

-----------------------------------------------------------------------------
(* Vocabulary of the properties *)

Skipped(raw) == TrimSpace(raw) = <<>> \/ HasPrefix(TrimSpace(raw), <<"#">>)

\* the line is neither skipped nor rejected by splitLine
IsKeyLine(raw) == ~Skipped(raw) /\ splitLine(TrimSpace(raw)).err = nil

RECURSIVE KeyLines(_)
\* the key/value pairs of the key lines of a text, in order
KeyLines(text) ==
    IF text = <<>> THEN <<>>
    ELSE LET kv == splitLine(TrimSpace(Head(text)))
         IN  (IF IsKeyLine(Head(text))
              THEN <<[key |-> kv.key, value |-> kv.value]>>
              ELSE <<>>) \o KeyLines(Tail(text))

\* the lines setField accepted: all lines read but a rejected last one
Accepted == SubSeq(data, 1, n)

BaseOnlyKeys ==
    DOMAIN BaseScalarKeys \cup DOMAIN BaseListKeys \cup DOMAIN BaseArchKeys

BaseOrPackageKeys ==
    DOMAIN PkgScalarKeys \cup DOMAIN PkgListKeys \cup DOMAIN PkgArchKeys

PackageFields == DOMAIN EmptyPackage

IsBaseOnly(key) == Len(key) = 1 /\ key[1] \in BaseOnlyKeys

IsBaseOrPackage(key) == Len(key) = 1 /\ key[1] \in BaseOrPackageKeys

\* an architecture-qualified field name followed by "_" and a suffix
IsArchQualified(key) == Len(key) >= 3 /\ key[1] \in ArchKeys /\ key[2] = "_"

IsUnknown(key) ==
    /\ key \notin {<<"pkgbase">>, <<"pkgname">>}
    /\ ~IsBaseOnly(key)
    /\ ~IsBaseOrPackage(key)
    /\ ~IsArchQualified(key)

\* the last line read, trimmed, and its key and value
LastLine == TrimSpace(data[Len(data)])

LastKV == splitLine(LastLine)

LastIsKeyLine == data # <<>> /\ IsKeyLine(data[Len(data)])

\* this step is an iteration of the loop of parse on a key line
ReadsKeyLine == Len(data') = Len(data) + 1 /\ IsKeyLine(data'[Len(data')])

ReadKV == splitLine(TrimSpace(data'[Len(data')]))

\* parse returned no document and the error err for the line it just read
FailsWith(err) ==
    /\ pc' = "failed"
    /\ ret' = [si |-> nil, err |-> Error(n, TrimSpace(data'[Len(data')]), err)]

\* the Package the parser is on: the base's or that of the last pkgname
currentPackageValue ==
    IF psr.headerType = headerPkgbase THEN psr.srcinfo.Package
    ELSE psr.srcinfo.Packages[psr.headerType + 1]

\* the least 1-based index at which name stands in names
FirstIndex(names, name) ==
    CHOOSE i \in 1..Len(names) :
        names[i] = name /\ \A j \in 1..(i - 1) : names[j] # name

-----------------------------------------------------------------------------
(* Properties *)

\* C1: in every document parse returns, the entries of Pkgnames are
\* pairwise distinct (a second declaration of a package name makes parse
\* fail).  The code does not have this property: seenPkgnames is empty at
\* every call of setField.
C1_PkgnamesDistinct ==
    ret.si # nil =>
        LET names == ret.si.PackageBase.Pkgnames
        IN  \A i, j \in 1..Len(names) : i # j => names[i] # names[j]

\* C2: a key line whose key is an architecture-qualified field name, with or
\* without a suffix _<arch>, read in a context in which the field may be
\* set, is accepted, and the last element of the field is then
\* ArchString{Arch: <arch>, Value: v} (Arch "" without a suffix).  The code
\* does not have this property: the switches of setField compare the whole
\* key with the field name, so a key with a suffix is an unknown key.
C2_ArchQualifiedStored ==
    LET key == LastKV.key
        name == key[1]
        arch == IF Len(key) = 1 THEN <<>> ELSE SubSeq(key, 3, Len(key))
        list == IF name \in DOMAIN BaseArchKeys
                THEN psr.srcinfo.PackageBase[BaseArchKeys[name]]
                ELSE currentPackageValue[PkgArchKeys[name]]
    IN  (/\ LastIsKeyLine
         /\ (Len(key) = 1 /\ name \in ArchKeys) \/ IsArchQualified(key)
         /\ IF name \in DOMAIN BaseArchKeys
            THEN psr.headerType = headerPkgbase
            ELSE psr.headerType # headerNone)
        => /\ pc # "failed"
           /\ list # <<>>
           /\ list[Len(list)] = [Arch |-> arch, Value |-> LastKV.value]

\* the positions of the pkgname lines among the key lines kl
PkgnamePositions(kl) == {j \in 1..Len(kl) : kl[j].key = <<"pkgname">>}

\* the key lines between the i-th pkgname line and the next one
Segment(kl, i) ==
    LET pos == PkgnamePositions(kl)
        from == CHOOSE j \in pos : Cardinality({k \in pos : k < j}) = i - 1
        later == {j \in pos : j > from}
        to == IF later = {} THEN Len(kl) + 1
              ELSE CHOOSE j \in later : \A k \in later : j <= k
    IN  SubSeq(kl, from + 1, to - 1)

RECURSIVE Overrides(_, _)
\* the Package that holds the base-or-package values of the key lines kvs
Overrides(kvs, pkg) ==
    IF kvs = <<>> THEN pkg
    ELSE LET key == Head(kvs).key
             value == Head(kvs).value
             name == key[1]
             next ==
                 IF ~IsBaseOrPackage(key) THEN pkg
                 ELSE IF name \in DOMAIN PkgScalarKeys
                 THEN [pkg EXCEPT ![PkgScalarKeys[name]] = value]
                 ELSE IF name \in DOMAIN PkgListKeys
                 THEN [pkg EXCEPT ![PkgListKeys[name]] = Append(@, value)]
                 ELSE [pkg EXCEPT ![PkgArchKeys[name]] =
                           Append(@, [Arch |-> <<>>, Value |-> value])]
         IN  Overrides(Tail(kvs), next)

\* the document si is the document of the accepted lines, package by package
PackagesMatch(si) ==
    LET kl == KeyLines(Accepted)
        names == si.PackageBase.Pkgnames
    IN  /\ Len(si.Packages) = Len(names)
        /\ Len(names) = Cardinality(PkgnamePositions(kl))
        /\ \A i \in 1..Len(names) :
               /\ \E j \in PkgnamePositions(kl) :
                      /\ Cardinality({k \in PkgnamePositions(kl) : k < j}) = i - 1
                      /\ names[i] = kl[j].value
               /\ si.Packages[i] = Overrides(Segment(kl, i), EmptyPackage)

\* C3: in every state of the parser and in every document parse returns,
\* Packages is as long as Pkgnames, Pkgnames[i] is the name of the i-th
\* pkgname line, and Packages[i] holds exactly the base-or-package values
\* of the lines accepted between that pkgname line and the next.
C3_PackagesMatchPkgnames ==
    /\ PackagesMatch(psr.srcinfo)
    /\ (ret.si # nil /\ ret.si # psr.srcinfo) => PackagesMatch(ret.si)

\* two packages with different, non-empty overrides were returned
C3_Witness ==
    /\ ret.si # nil
    /\ Len(ret.si.Packages) = 2
    /\ ret.si.Packages[1] # EmptyPackage
    /\ ret.si.Packages[2] # EmptyPackage
    /\ ret.si.Packages[1] # ret.si.Packages[2]

\* C4: a key line with a base-only key read when a pkgname line was accepted
\* before makes parse fail with "can not occur after pkgname".
C4_BaseOnlyAfterPkgname ==
    [][(ReadsKeyLine /\ IsBaseOnly(ReadKV.key) /\ psr.headerType >= 0)
        => FailsWith(Errorf("key %s can not occur after pkgname", ReadKV.key))]_vars

\* a base-only key was rejected after a pkgname, and the same key was
\* accepted before in the package base
C4_Witness ==
    /\ pc = "failed"
    /\ ret.err.Err.format = "key %s can not occur after pkgname"
    /\ \E j \in 1..n : /\ IsKeyLine(data[j])
                       /\ splitLine(TrimSpace(data[j])).key = LastKV.key

\* C5: the Package SplitPackage returns has the 14 fields of Package; each is
\* the override of the package when that is not empty, the value of the base
\* otherwise (a list is never the concatenation of the two).
C5_MergeOverridesBase ==
    (split # nil /\ split.err = nil) =>
        LET i == FirstIndex(ret.si.PackageBase.Pkgnames, split.name)
            override == ret.si.Packages[i]
            base == ret.si.Package
        IN  /\ DOMAIN split.pkg = PackageFields
            /\ \A f \in PackageFields :
                   split.pkg[f] = IF override[f] # <<>> THEN override[f]
                                  ELSE base[f]

\* a list of the base was overridden by a different list of the package
C5_Witness ==
    /\ split # nil
    /\ split.err = nil
    /\ LET i == FirstIndex(ret.si.PackageBase.Pkgnames, split.name)
           override == ret.si.Packages[i]
           base == ret.si.Package
       IN  /\ Len(base.Depends) = 1
           /\ Len(override.Depends) = 1
           /\ base.Depends # override.Depends
           /\ split.pkg.Depends = override.Depends

\* a package that overrides only pkgdesc was merged with a base that has a
\* url: the result is the base with that description
C5_WitnessPkgdescOnly ==
    /\ split # nil
    /\ split.err = nil
    /\ LET i == FirstIndex(ret.si.PackageBase.Pkgnames, split.name)
           override == ret.si.Packages[i]
           base == ret.si.Package
       IN  /\ override = [EmptyPackage EXCEPT !.Pkgdesc = <<"doc">>]
           /\ base.URL # <<>>
           /\ split.pkg = [base EXCEPT !.Pkgdesc = <<"doc">>]

\* C6 as claimed: a key line with an unknown key makes parse fail with the
\* unknown-key error in every context.
C6_UnknownKeyEveryContext ==
    [][(ReadsKeyLine /\ IsUnknown(ReadKV.key))
        => FailsWith(Errorf("Unknown key: %s", ReadKV.key))]_vars

\* C6, amended: a key line with an unknown key makes parse fail in every
\* context: with the unknown-key error in the package base and in a
\* package, with "can not occur before pkgbase or pkgname" with no context.
C6_UnknownKeyFails ==
    [][(ReadsKeyLine /\ IsUnknown(ReadKV.key))
        => FailsWith(IF psr.headerType = headerNone
                     THEN Errorf("key %s can not occur before pkgbase or pkgname",
                                 ReadKV.key)
                     ELSE Errorf("Unknown key: %s", ReadKV.key))]_vars

\* an unknown key was rejected as unknown in a package
C6_Witness ==
    /\ pc = "failed"
    /\ LastIsKeyLine
    /\ IsUnknown(LastKV.key)
    /\ psr.headerType >= 0
    /\ ret.err.Err.format = "Unknown key: %s"

\* the document of the end-to-end scenario
IsScenario(si) ==
    /\ si # nil
    /\ si.PackageBase.Pkgbase = Foo
    /\ si.PackageBase.Pkgver = <<"1.0">>
    /\ si.PackageBase.Pkgrel = <<"1">>
    /\ si.PackageBase.Pkgnames = <<Foo, FooDoc>>
    /\ si.Package.Pkgdesc = <<>>
    /\ si.Packages[1] = EmptyPackage
    /\ si.Packages[2] = [EmptyPackage EXCEPT !.Pkgdesc = <<"doc">>]

\* C7 as claimed: in the scenario the Package returned for foo has the empty
\* description of the base, the one returned for foo-doc its own, and both
\* carry the version 1.0 of the base.
C7_SplitExposesVersion ==
    (IsScenario(ret.si) /\ split # nil /\ split.name \in {Foo, FooDoc}) =>
        /\ split.err = nil
        /\ split.pkg.Pkgdesc = (IF split.name = Foo THEN <<>> ELSE <<"doc">>)
        /\ "Pkgver" \in DOMAIN split.pkg
        /\ split.pkg.Pkgver = <<"1.0">>

\* C7, amended: in the scenario the Package returned for foo has the empty
\* description of the base and the one returned for foo-doc its own; the
\* result has the 14 fields of Package and no version, the version 1.0 is
\* in the Pkgver of the document.
C7_SplitScenario ==
    (IsScenario(ret.si) /\ split # nil /\ split.name \in {Foo, FooDoc}) =>
        /\ split.err = nil
        /\ split.pkg.Pkgdesc = (IF split.name = Foo THEN <<>> ELSE <<"doc">>)
        /\ DOMAIN split.pkg = PackageFields
        /\ "Pkgver" \notin DOMAIN split.pkg
        /\ ret.si.PackageBase.Pkgver = <<"1.0">>

\* foo-doc was resolved in the scenario
C7_Witness ==
    /\ IsScenario(ret.si)
    /\ split # nil
    /\ split.name = FooDoc
    /\ split.err = nil
    /\ split.pkg.Pkgdesc = <<"doc">>

\* C8: parse returns a document only if the first key line of the text is
\* the only pkgbase line; a pkgbase line read in an established context is
\* rejected with "can not occur after a pkgbase or pkgname".  The code does
\* not have this property: a text without key lines gives a document.
C8_PkgbaseOnceAndFirst ==
    LET kl == KeyLines(data)
    IN  /\ ret.si # nil =>
               /\ kl # <<>>
               /\ kl[1].key = <<"pkgbase">>
               /\ \A j \in 2..Len(kl) : kl[j].key # <<"pkgbase">>
        /\ (LastIsKeyLine /\ LastKV.key = <<"pkgbase">> /\ Len(kl) >= 2) =>
               /\ pc = "failed"
               /\ ret.err.Err =
                      Errorf("key %s can not occur after a pkgbase or pkgname",
                             <<"pkgbase">>)

\* C9: with no context, a key line with the key pkgname, a base-only key or
\* a base-or-package key makes parse fail with "can not occur before
\* pkgbase" (pkgname) or "can not occur before pkgbase or pkgname" (the
\* others), and the parser is left as it was, with no context.
C9_NoContextSequenceError ==
    [][(/\ ReadsKeyLine
        /\ psr.headerType = headerNone
        /\ \/ ReadKV.key = <<"pkgname">>
           \/ IsBaseOnly(ReadKV.key)
           \/ IsBaseOrPackage(ReadKV.key))
        => /\ FailsWith(IF ReadKV.key = <<"pkgname">>
                        THEN Errorf("key %s can not occur before pkgbase",
                                    ReadKV.key)
                        ELSE Errorf("key %s can not occur before pkgbase or pkgname",
                                    ReadKV.key))
           /\ psr'.headerType = headerNone]_vars

\* a pkgname line was rejected with no context
C9_Witness ==
    /\ pc = "failed"
    /\ psr.headerType = headerNone
    /\ LastIsKeyLine
    /\ LastKV.key = <<"pkgname">>
    /\ ret.err.Err.format = "key %s can not occur before pkgbase"

\* a field line was rejected with no context
C9_WitnessField ==
    /\ pc = "failed"
    /\ psr.headerType = headerNone
    /\ LastIsKeyLine
    /\ IsBaseOnly(LastKV.key) \/ IsBaseOrPackage(LastKV.key)
    /\ ret.err.Err.format = "key %s can not occur before pkgbase or pkgname"

\* C10: SplitPackage(name) fails, with the unknown-package error, exactly
\* when name is not an element of Pkgnames; otherwise it returns the merge
\* of the base with the override at the first index where name stands.
C10_SplitPackageLookup ==
    split # nil =>
        LET names == ret.si.PackageBase.Pkgnames
        IN  /\ split.err # nil <=> split.name \notin Range(names)
            /\ split.err # nil =>
                   /\ split.pkg = nil
                   /\ split.err =
                          Errorf("Package %s is not part of this package base",
                                 split.name)
            /\ split.err = nil =>
                   split.pkg =
                       mergeSplitPackage(ret.si.Package,
                           ret.si.Packages[FirstIndex(names, split.name)])

\* the second of two packages with different overrides was resolved
C10_Witness ==
    /\ split # nil
    /\ split.err = nil
    /\ Len(ret.si.Packages) = 2
    /\ ret.si.Packages[1] # ret.si.Packages[2]
    /\ split.name = ret.si.PackageBase.Pkgnames[2]
    /\ split.name # ret.si.PackageBase.Pkgnames[1]

\* a name that is not in Pkgnames was refused
C10_WitnessMissing ==
    /\ split # nil
    /\ split.err # nil
    /\ ret.si.PackageBase.Pkgnames # <<>>

\* this step is an iteration of the loop of parse
ReadsLine == Len(data') = Len(data) + 1

\* the line this step reads, trimmed
ReadLine == TrimSpace(data'[Len(data')])

\* the line is blank or its first character that is not white space is "#"
IsBlankOrComment(raw) ==
    \/ \A i \in 1..Len(raw) : raw[i] \in WhiteSpace
    \/ \E i \in 1..Len(raw) :
           /\ raw[i] = "#"
           /\ \A j \in 1..(i - 1) : raw[j] \in WhiteSpace

\* the error of the scanner or of the dispatcher for the line this step
\* reads, nil if the line violates no rule
RuleError ==
    LET sl == splitLine(ReadLine)
    IN  IF IsBlankOrComment(data'[Len(data')]) THEN nil
        ELSE IF sl.err # nil THEN sl.err
        ELSE setField(psr, sl.key, sl.value).err

\* C11: parse fails at the line it reads exactly when the line violates a
\* rule; it then returns no document and the error of that line, numbered
\* with the 0-based index of the line among all the lines read, and it
\* reads no line afterwards.
C11_FirstErrorStops ==
    [][/\ pc # "failed"
       /\ ReadsLine =>
              IF RuleError # nil
              THEN /\ pc' = "failed"
                   /\ ret' = [si |-> nil,
                              err |-> [Line |-> Len(data), Text |-> ReadLine,
                                       Err |-> RuleError]]
              ELSE pc' = pc /\ ret' = ret]_vars

\* the second line of a text was rejected after a blank or comment line
C11_Witness ==
    /\ pc = "failed"
    /\ Len(data) = 2
    /\ IsBlankOrComment(data[1])
    /\ ret.si = nil
    /\ ret.err.Line = 1

\* the errors of splitLine
MalformedErrors ==
    {Errorf("Line does not contain =", <<>>), Errorf("Key is empty", <<>>),
     Errorf("value is empty", <<>>)}

AllWhiteSpace(s) == \A i \in 1..Len(s) : s[i] \in WhiteSpace

\* text is core with white space on both sides, core without any at its ends
IsTrimOf(core, text) ==
    /\ core # <<>>
    /\ core[1] \notin WhiteSpace
    /\ core[Len(core)] \notin WhiteSpace
    /\ \E i \in 1..Len(text) :
           /\ i + Len(core) - 1 <= Len(text)
           /\ SubSeq(text, i, i + Len(core) - 1) = core
           /\ AllWhiteSpace(SubSeq(text, 1, i - 1))
           /\ AllWhiteSpace(SubSeq(text, i + Len(core), Len(text)))

\* the line has no "=", or nothing but white space on one side of its
\* first "="
IsMalformed(line) ==
    \/ \A i \in 1..Len(line) : line[i] # "="
    \/ \E i \in 1..Len(line) :
           /\ line[i] = "="
           /\ \A j \in 1..(i - 1) : line[j] # "="
           /\ \/ AllWhiteSpace(SubSeq(line, 1, i - 1))
              \/ AllWhiteSpace(SubSeq(line, i + 1, Len(line)))

\* C12: the last line read, when it is neither blank nor a comment, made
\* parse fail with an error of splitLine exactly when it has no "=" or an
\* empty key or an empty value; otherwise splitLine gave the text before
\* its first "=" as the key and all the text after it as the value, both
\* trimmed.
C12_MalformedLines ==
    (data # <<>> /\ ~IsBlankOrComment(data[Len(data)])) =>
        LET sl == splitLine(LastLine)
            i == Index(LastLine, "=")
        IN  /\ sl.err \in MalformedErrors <=> IsMalformed(LastLine)
            /\ sl.err \notin MalformedErrors => sl.err = nil
            /\ (pc = "failed" /\ ret.err.Err \in MalformedErrors)
                   <=> IsMalformed(LastLine)
            /\ ~IsMalformed(LastLine) =>
                   /\ \A j \in 1..Len(sl.key) : sl.key[j] # "="
                   /\ IsTrimOf(sl.key, SubSeq(LastLine, 1, i - 1))
                   /\ IsTrimOf(sl.value, SubSeq(LastLine, i + 1, Len(LastLine)))

\* a line whose value holds a "=" was accepted with that value
C12_Witness ==
    /\ pc = "parse"
    /\ data # <<>>
    /\ LastKV.err = nil
    /\ LastKV.key = <<"provides">>
    /\ LastKV.value = <<"gcc", "=", "6.3.0">>
    /\ currentPackageValue.Provides =
           <<[Arch |-> <<>>, Value |-> <<"gcc", "=", "6.3.0">>]>>

\* a line with an empty value was rejected
C12_WitnessEmptyValue ==
    /\ pc = "failed"
    /\ LastLine = <<"pkgdesc", " ", "=">>
    /\ ret.err.Err = Errorf("value is empty", <<>>)

\* C14: headerType never decreases: it goes from headerNone to
\* headerPkgbase and then through the package indices 0, 1, 2, ... one at a
\* time, and when it is a package index it is len(Pkgnames) - 1.
C14_ContextMovesForward ==
    [][/\ psr'.headerType \in {psr.headerType, psr.headerType + 1}
       /\ psr'.headerType >= 0 =>
              psr'.headerType = Len(psr'.srcinfo.PackageBase.Pkgnames) - 1]_vars

\* the parser is on the second package and has read a field of it
C14_Witness ==
    /\ psr.headerType = 1
    /\ Len(psr.srcinfo.PackageBase.Pkgnames) = 2
    /\ LastIsKeyLine
    /\ IsBaseOrPackage(LastKV.key)

BaseScalarFields == {"Pkgbase", "Pkgver", "Pkgrel", "Epoch"}

PkgScalarFields == {"Pkgdesc", "URL", "Install", "Changelog"}

IsPrefix(a, b) == Len(a) <= Len(b) /\ SubSeq(b, 1, Len(a)) = a

\* from the record old to the record new no scalar field was emptied and
\* every list field kept its elements and got at most one more at its end
Monotone(old, new, scalars) ==
    \A f \in DOMAIN old :
        IF f \in scalars
        THEN old[f] # <<>> => new[f] # <<>>
        ELSE IsPrefix(old[f], new[f]) /\ Len(new[f]) <= Len(old[f]) + 1

\* the Package of the document si the header h stands for
PackageAt(si, h) == IF h = headerPkgbase THEN si.Package ELSE si.Packages[h + 1]

\* the document new is the document old after the key line key = value was
\* accepted under the header h
Populated(old, new, h, key, value) ==
    LET name == key[1]
        as == [Arch |-> <<>>, Value |-> value]
    IN  IF key = <<"pkgbase">> THEN new.PackageBase.Pkgbase = value
        ELSE IF key = <<"pkgname">>
        THEN /\ new.PackageBase.Pkgnames = Append(old.PackageBase.Pkgnames, value)
             /\ new.Packages = Append(old.Packages, EmptyPackage)
        ELSE IF name \in DOMAIN BaseScalarKeys
        THEN new.PackageBase[BaseScalarKeys[name]] = value
        ELSE IF name \in DOMAIN BaseListKeys
        THEN new.PackageBase[BaseListKeys[name]] =
                 Append(old.PackageBase[BaseListKeys[name]], value)
        ELSE IF name \in DOMAIN BaseArchKeys
        THEN new.PackageBase[BaseArchKeys[name]] =
                 Append(old.PackageBase[BaseArchKeys[name]], as)
        ELSE IF name \in DOMAIN PkgScalarKeys
        THEN PackageAt(new, h)[PkgScalarKeys[name]] = value
        ELSE IF name \in DOMAIN PkgListKeys
        THEN PackageAt(new, h)[PkgListKeys[name]] =
                 Append(PackageAt(old, h)[PkgListKeys[name]], value)
        ELSE PackageAt(new, h)[PkgArchKeys[name]] =
                 Append(PackageAt(old, h)[PkgArchKeys[name]], as)

\* C15: in every step no scalar field of the document is emptied, no list
\* loses or changes an element, Pkgnames and Packages do not shrink; an
\* accepted list-valued key appends its value at the end of its list and an
\* accepted scalar key sets its field to its value.
C15_PopulatedMonotonically ==
    [][LET old == psr.srcinfo
           new == psr'.srcinfo
       IN  /\ new.PackageBase # old.PackageBase =>
                  Monotone(old.PackageBase, new.PackageBase, BaseScalarFields)
           /\ new.Package # old.Package =>
                  Monotone(old.Package, new.Package, PkgScalarFields)
           /\ new.Packages # old.Packages =>
                  /\ Len(new.Packages) >= Len(old.Packages)
                  /\ \A i \in 1..Len(old.Packages) :
                         Monotone(old.Packages[i], new.Packages[i],
                                  PkgScalarFields)
           /\ (ReadsKeyLine /\ pc' = "parse") =>
                  Populated(old, new, psr'.headerType, ReadKV.key, ReadKV.value)]_vars

\* a list of the base holds two values in the order of their lines
C15_Witness ==
    /\ pc = "parse"
    /\ Len(data) = 3
    /\ LastIsKeyLine
    /\ LastKV.key = <<"license">>
    /\ LastKV.value = <<"b">>
    /\ splitLine(TrimSpace(data[2])) =
           [key |-> <<"license">>, value |-> <<"a">>, err |-> nil]
    /\ psr.srcinfo.Package.License = <<<<"a">>, <<"b">>>>

\* a scalar of the base holds the second of two values
C15_WitnessScalar ==
    /\ pc = "parse"
    /\ Len(data) = 3
    /\ LastIsKeyLine
    /\ LastKV.key = <<"pkgver">>
    /\ LastKV.value = <<"b">>
    /\ splitLine(TrimSpace(data[2])) =
           [key |-> <<"pkgver">>, value |-> <<"a">>, err |-> nil]
    /\ psr.srcinfo.PackageBase.Pkgver = <<"b">>

\* the field of Package a base-or-package key is stored in
PackageFieldOf(key) ==
    IF key[1] \in DOMAIN PkgScalarKeys THEN PkgScalarKeys[key[1]]
    ELSE IF key[1] \in DOMAIN PkgListKeys THEN PkgListKeys[key[1]]
    ELSE PkgArchKeys[key[1]]

\* C16: a base-or-package key read in an established context is accepted
\* and changes at most one field of the current entity: the PackageBase
\* fields (Pkgnames among them) and the context are unchanged; in the
\* package base Packages is unchanged, in package i the base's Package and
\* every other entry of Packages are unchanged.
C16_OnlyCurrentEntity ==
    [][(/\ ReadsKeyLine
        /\ IsBaseOrPackage(ReadKV.key)
        /\ psr.headerType # headerNone) =>
           LET old == psr.srcinfo
               new == psr'.srcinfo
               h == psr.headerType
               field == PackageFieldOf(ReadKV.key)
           IN  /\ pc' = "parse"
               /\ psr'.headerType = h
               /\ new.PackageBase = old.PackageBase
               /\ Len(new.Packages) = Len(old.Packages)
               /\ IF h = headerPkgbase
                  THEN new.Packages = old.Packages
                  ELSE /\ new.Package = old.Package
                       /\ \A j \in 1..Len(old.Packages) :
                              j # h + 1 => new.Packages[j] = old.Packages[j]
               /\ \A f \in PackageFields \ {field} :
                      PackageAt(new, h)[f] = PackageAt(old, h)[f]]_vars

\* a field of the second package was set while the first package and the
\* base have fields of their own
C16_Witness ==
    /\ pc = "parse"
    /\ psr.headerType = 1
    /\ LastIsKeyLine
    /\ IsBaseOrPackage(LastKV.key)
    /\ psr.srcinfo.Packages[2] # EmptyPackage
    /\ psr.srcinfo.Packages[1] # EmptyPackage
    /\ psr.srcinfo.Package # EmptyPackage

IsRuleLine(raw) == ~IsBlankOrComment(raw)

\* the text without its blank and comment lines
Stripped(text) == SelectSeq(text, IsRuleLine)

\* parse of the lines read without their blank and comment lines comes to
\* where parse of the lines read has come: the same parser and document,
\* or the same error but for its line number
SameWithoutSkipped ==
    LET r == parse(Stripped(data))
        skipped == Len(data) - Len(Stripped(data))
    IN  /\ r.psr = psr
        /\ pc = "parse" => r.err = nil
        /\ pc = "returned" => r.err = nil /\ r.si = ret.si
        /\ pc = "failed" =>
               /\ r.si = nil
               /\ r.err # nil
               /\ r.err.Err = ret.err.Err
               /\ r.err.Text = ret.err.Text
               /\ r.err.Line = ret.err.Line - skipped

\* C17: a blank line, a line of white space and a line whose first
\* character after white space is "#" are read without error in every
\* context and change neither the parser nor the results; the text without
\* these lines gives the same document or the same error, with the line
\* number less the number of lines left out.
C17_SkippedLines ==
    /\ []SameWithoutSkipped
    /\ [][(ReadsLine /\ IsBlankOrComment(data'[Len(data')])) =>
              /\ psr' = psr
              /\ pc' = pc
              /\ ret' = ret
              /\ n' = n + 1]_vars

\* a document was returned for a text with a skipped line between two key
\* lines
C17_Witness ==
    /\ pc = "returned"
    /\ Len(data) = 3
    /\ IsBlankOrComment(data[2])
    /\ ret.si.PackageBase.Pkgbase = Foo
    /\ ret.si.PackageBase.Pkgnames = <<Foo>>

\* an error was returned for a line that follows a comment line
C17_WitnessError ==
    /\ pc = "failed"
    /\ Len(data) = 3
    /\ HasPrefix(TrimSpace(data[2]), <<"#">>)
    /\ psr.headerType = headerPkgbase
    /\ ret.err.Line = 2

C19_RejectedKeyWritesNothing ==
    [][(ReadsKeyLine /\ pc' = "failed") => psr' = psr]_vars

\* C20: the ArchString makeArchString makes of a key and a value has the
\* value unchanged and, for its architecture, the empty string when the key
\* has no "_" and all that follows the first "_" of the key otherwise.
C20_ArchFromKey ==
    (made # nil /\ made.as # nil) =>
        LET key == made.key
            underscores == {i \in 1..Len(key) : key[i] = "_"}
        IN  /\ made.as.Value = made.value
            /\ underscores = {} => made.as.Arch = <<>>
            /\ \A i \in underscores :
                   (\A j \in underscores : i <= j) =>
                       /\ Len(made.as.Arch) = Len(key) - i
                       /\ \A k \in 1..(Len(key) - i) :
                              made.as.Arch[k] = key[i + k]

\* the key a_b_c gave the architecture b_c
C20_Witness ==
    /\ made # nil
    /\ made.key = <<"a", "_", "b", "_", "a">>
    /\ made.value = <<"v", "_", "w">>
    /\ made.as = [Arch |-> <<"b", "_", "a">>, Value |-> <<"v", "_", "w">>]

=============================================================================
